---- MODULE Spec2Model ----
(***************************************************************************)
(* Model of src/app.py, the Employee Attrition Dashboard script.           *)
(*                                                                         *)
(* The script is run top to bottom once when a session starts and once     *)
(* more after every widget change.  One run is: load_data() (line 14), the *)
(* three sidebar widgets (lines 24-26), the filter (lines 29-34) and the   *)
(* twenty numbered views (lines 40-140).  A run in which a statement       *)
(* raises stops at that statement.  The memo of st.cache_data and the      *)
(* widget values live across runs; every script variable is rebuilt.       *)
(*                                                                         *)
(* Chart drawing is not modelled: a view's result is the table it hands to *)
(* the chart call.  Coefficients are exact rationals, not floats.          *)
(***************************************************************************)
EXTENDS Integers, Sequences, FiniteSets, TLC

\* ------------------------------------------------------------- bounds
\* Largest number of records in the dataset file.
MaxRows == 3
\* Largest number of runs of the script (the first run plus reruns).
MaxRuns == 3

\* ---------------------------------------------------- program constants
NumViews == 20
DefaultLo == 25
DefaultHi == 45
ALL == "All"

\* ------------------------------------------------------------ the data
CategoricalColumns ==
    {"Attrition", "Gender", "Department", "MaritalStatus", "JobRole",
     "BusinessTravel", "EducationField", "OverTime"}

NumericColumns ==
    {"Age", "JobSatisfaction", "EnvironmentSatisfaction", "WorkLifeBalance",
     "DistanceFromHome", "MonthlyIncome", "YearsAtCompany", "PerformanceRating",
     "YearsSinceLastPromotion", "YearsWithCurrManager", "Education"}

AllColumns == CategoricalColumns \cup NumericColumns

\* One record of EA.csv.  The columns the filter and the first five views
\* read vary; the others hold one value.
Row(g, d, a, at, ms, inc) ==
    [c \in AllColumns |->
        CASE c = "Gender" -> g
          [] c = "Department" -> d
          [] c = "Age" -> a
          [] c = "Attrition" -> at
          [] c = "MaritalStatus" -> ms
          [] c = "MonthlyIncome" -> inc
          [] c = "YearsAtCompany" -> inc
          [] c \in NumericColumns -> 3
          [] OTHER -> "x"]

\* The records a dataset file is drawn from, in file order.
Master ==
    << Row("Male", "Sales", 20, "Yes", "Single", 1),
       Row("Female", "Sales", 25, "No", "Married", 2),
       Row("Male", "HR", 35, "No", "Single", 2),
       Row("Female", "HR", 45, "Yes", "Married", 1),
       Row("Male", "Sales", 50, "No", "Married", 1) >>

\* The positions the age slider can be dragged to in the model.
AgePoints == {20, 25, 35, 45, 50}

\* Columns a dataset file may lack.
DroppableColumns == {"OverTime", "MaritalStatus", "Gender", "JobRole"}

Schemas == {AllColumns} \cup {AllColumns \ {c} : c \in DroppableColumns}

RECURSIVE SubTable(_, _)
SubTable(S, i) ==
    IF i > Len(Master) THEN <<>>
    ELSE (IF i \in S THEN <<Master[i]>> ELSE <<>>) \o SubTable(S, i + 1)

Project(rows, cols) == [i \in 1..Len(rows) |-> [c \in cols |-> rows[i][c]]]

\* The dataset files: a header of column names and up to MaxRows records.
Files ==
    {[columns |-> s, rows |-> Project(SubTable(S, 1), s)] :
        s \in Schemas,
        S \in {T \in SUBSET (1..Len(Master)) : Cardinality(T) <= MaxRows}}

NoFrame == [columns |-> {}, rows |-> <<>>]
Unset == "<unset>"

Range(s) == {s[i] : i \in DOMAIN s}

VARIABLES
    file,                \* EA.csv
    cache,               \* the memo of st.cache_data for load_data
    reads,               \* number of pd.read_csv calls so far
    runs,                \* number of script runs started
    interactions,        \* number of widget changes made by the user
    pc,                  \* position in the script
    nextView,            \* number of the next view to compute
    err,                 \* the exception that stopped the run, if any
    df,
    w_gender, w_department, w_age,          \* widget values kept across runs
    gender_options, department_options, age_bounds,
    selected_gender, selected_department, selected_age,
    filtered_df,
    log,                 \* steps of this run: 0 = filter, i = view i
    status,              \* per view: "none", "ok" or "warning"
    counts,              \* view 1
    pie_df,              \* view 2
    corr,                \* view 3
    grouped,             \* views 4 and 5
    px                   \* views 6 to 20

widgets == <<w_gender, w_department, w_age>>
sidebar == <<gender_options, department_options, age_bounds,
             selected_gender, selected_department, selected_age>>
results == <<status, counts, pie_df, corr, grouped, px>>
vars == <<file, cache, reads, runs, interactions, pc, nextView, err, df,
          widgets, sidebar, filtered_df, log, results>>

\* ------------------------------------------------------------- helpers
EmptyCounts == [v \in {} |-> 0]
NoStatus == [i \in 1..NumViews |-> "none"]
NoGrouped == [i \in 4..5 |-> EmptyCounts]
NoPx == [i \in 6..NumViews |-> <<>>]

\* The values a script variable has before its statement has run.
ScriptStart ==
    /\ df' = NoFrame
    /\ gender_options' = <<>>
    /\ department_options' = <<>>
    /\ age_bounds' = <<>>
    /\ selected_gender' = Unset
    /\ selected_department' = Unset
    /\ selected_age' = <<>>
    /\ filtered_df' = NoFrame
    /\ log' = <<>>
    /\ status' = NoStatus
    /\ counts' = EmptyCounts
    /\ pie_df' = {}
    /\ corr' = EmptyCounts
    /\ grouped' = NoGrouped
    /\ px' = NoPx
    /\ nextView' = 1
    /\ err' = ""

Init ==
    /\ file \in Files
    /\ cache = [loaded |-> FALSE, value |-> NoFrame]
    /\ reads = 0
    /\ runs = 1
    /\ interactions = 0
    /\ pc = "load"
    /\ nextView = 1
    /\ err = ""
    /\ df = NoFrame
    /\ w_gender = Unset
    /\ w_department = Unset
    /\ w_age = <<>>
    /\ gender_options = <<>>
    /\ department_options = <<>>
    /\ age_bounds = <<>>
    /\ selected_gender = Unset
    /\ selected_department = Unset
    /\ selected_age = <<>>
    /\ filtered_df = NoFrame
    /\ log = <<>>
    /\ status = NoStatus
    /\ counts = EmptyCounts
    /\ pie_df = {}
    /\ corr = EmptyCounts
    /\ grouped = NoGrouped
    /\ px = NoPx

\* ------------------------------------------------ load_data, lines 10-14
\* pd.read_csv: the file is held as the frame its text denotes (the header's
\* columns, one record per line); the file is taken to be readable.
read_csv(f) == [columns |-> f.columns, rows |-> f.rows]

LoadDataUncached ==
    /\ pc = "load"
    /\ cache' = [loaded |-> TRUE, value |-> read_csv(file)]
    /\ reads' = reads + 1
    /\ df' = cache'.value
    /\ pc' = "sidebar"
    /\ UNCHANGED <<file, runs, interactions, nextView, err, widgets, sidebar,
                   filtered_df, log, results>>

LoadData ==
    /\ pc = "load"
    /\ IF cache.loaded
         THEN UNCHANGED <<cache, reads>>
         ELSE /\ cache' = [loaded |-> TRUE, value |-> read_csv(file)]
              /\ reads' = reads + 1
    /\ df' = cache'.value
    /\ pc' = "sidebar"
    /\ UNCHANGED <<file, runs, interactions, nextView, err, widgets, sidebar,
                   filtered_df, log, results>>

\* ------------------------------------------- sidebar filters, lines 22-26
\* Series.unique(): the distinct values in order of first appearance.
RECURSIVE Unique(_, _, _)
Unique(rows, col, i) ==
    IF i > Len(rows) THEN <<>>
    ELSE (IF \E j \in 1..(i - 1) : rows[j][col] = rows[i][col]
            THEN <<>> ELSE <<rows[i][col]>>) \o Unique(rows, col, i + 1)

Options(rows, col) == <<ALL>> \o Unique(rows, col, 1)

\* Series.min() and Series.max() of the Age column (an int64 column, which
\* int() leaves as it is); only used on a frame with at least one record.
AgeMin(rows) ==
    CHOOSE m \in {rows[i]["Age"] : i \in DOMAIN rows} :
        \A i \in DOMAIN rows : m <= rows[i]["Age"]

AgeMax(rows) ==
    CHOOSE m \in {rows[i]["Age"] : i \in DOMAIN rows} :
        \A i \in DOMAIN rows : m >= rows[i]["Age"]

\* st.selectbox: the first option until the user has picked one.
Selectbox(options, w) == IF w \in Range(options) THEN w ELSE options[1]

\* st.slider raises unless min_value <= value[0] <= value[1] <= max_value.
SliderAccepts(lo, hi, value) ==
    lo <= value[1] /\ value[1] <= value[2] /\ value[2] <= hi

\* st.slider: the value argument until the user has dragged the slider.
Slider(value, w) == IF w = <<>> THEN value ELSE w

Sidebar ==
    /\ pc = "sidebar"
    /\ LET okG == "Gender" \in df.columns
           okD == okG /\ "Department" \in df.columns
           okC == okD /\ "Age" \in df.columns
           okB == okC /\ df.rows # <<>>
           lo  == IF okB THEN AgeMin(df.rows) ELSE 0
           hi  == IF okB THEN AgeMax(df.rows) ELSE 0
           okA == okB /\ SliderAccepts(lo, hi, <<DefaultLo, DefaultHi>>)
           gopts == IF okG THEN Options(df.rows, "Gender") ELSE <<>>
           dopts == IF okD THEN Options(df.rows, "Department") ELSE <<>>
       IN /\ gender_options' = gopts
          /\ selected_gender' = IF okG THEN Selectbox(gopts, w_gender) ELSE Unset
          /\ department_options' = dopts
          /\ selected_department' =
                IF okD THEN Selectbox(dopts, w_department) ELSE Unset
          /\ age_bounds' = IF okB THEN <<lo, hi>> ELSE <<>>
          /\ selected_age' =
                IF okA THEN Slider(<<DefaultLo, DefaultHi>>, w_age) ELSE <<>>
          /\ pc' = IF okA THEN "filter" ELSE "error"
          /\ err' = CASE ~okD -> "KeyError"
                      [] okD /\ ~okC -> "AttributeError"
                      [] okC /\ ~okB -> "ValueError"
                      [] okB /\ ~okA -> "StreamlitAPIException"
                      [] OTHER -> ""
    /\ UNCHANGED <<file, cache, reads, runs, interactions, nextView, df,
                   widgets, filtered_df, log, results>>

\* --------------------------------------------- apply filters, lines 28-34
FilterCategoricalNoSentinel(rows, col, sel) ==
    SelectSeq(rows, LAMBDA r : r[col] = sel)

FilterCategorical(rows, col, sel) ==
    IF sel # ALL THEN SelectSeq(rows, LAMBDA r : r[col] = sel) ELSE rows

InAgeRangeExclusive(age, sel) == age >= sel[1] /\ age < sel[2]

InAgeRange(age, sel) == age >= sel[1] /\ age <= sel[2]

FilterAge(rows, sel) == SelectSeq(rows, LAMBDA r : InAgeRange(r["Age"], sel))

ApplyFilterInPlace ==
    /\ pc = "filter"
    /\ filtered_df' =
          [columns |-> df.columns,
           rows |-> FilterAge(
                      FilterCategorical(
                        FilterCategorical(df.rows, "Gender", selected_gender),
                        "Department", selected_department),
                      selected_age)]
    /\ df' = filtered_df'
    /\ cache' = [cache EXCEPT !.value = filtered_df']
    /\ log' = Append(log, 0)
    /\ nextView' = 1
    /\ pc' = "render"
    /\ UNCHANGED <<file, reads, runs, interactions, err, widgets,
                   sidebar, results>>

ApplyFilter ==
    /\ pc = "filter"
    /\ filtered_df' =
          [columns |-> df.columns,
           rows |-> FilterAge(
                      FilterCategorical(
                        FilterCategorical(df.rows, "Gender", selected_gender),
                        "Department", selected_department),
                      selected_age)]
    /\ log' = Append(log, 0)
    /\ nextView' = 1
    /\ pc' = "render"
    /\ UNCHANGED <<file, cache, reads, runs, interactions, err, df, widgets,
                   sidebar, results>>

\* ------------------------------------------------ the views, lines 36-140
\* Series.value_counts(): each value that occurs, with how often.
ValueCountsPresence(rows, col) ==
    [v \in {rows[i][col] : i \in DOMAIN rows} |-> 1]

ValueCounts(rows, col) ==
    [v \in {rows[i][col] : i \in DOMAIN rows} |->
        Cardinality({i \in DOMAIN rows : rows[i][col] = v})]

\* value_counts().reset_index(): one row per value, columns index, Attrition.
ResetIndex(vc) == {[index |-> v, Attrition |-> vc[v]] : v \in DOMAIN vc}

\* groupby(g)[inner].value_counts().unstack().fillna(0): one row per group
\* value, one column per inner value, absent combinations filled with 0.
GroupedValueCounts(rows, g, inner) ==
    [x \in {rows[i][g] : i \in DOMAIN rows} |->
        [a \in {rows[i][inner] : i \in DOMAIN rows} |->
            Cardinality({i \in DOMAIN rows :
                            rows[i][g] = x /\ rows[i][inner] = a})]]

\* DataFrame.corr(): Pearson's r for every pair of numeric columns.  With
\* n records, S(a,b) = n*sum(a*b) - sum(a)*sum(b), and r = S(a,b) /
\* sqrt(S(a,a)*S(b,b)).  r is held as its sign and the fraction r*r in
\* lowest terms; a zero divisor gives NaN, held as the fraction 0/0.
RECURSIVE SumTo(_, _)
SumTo(f, n) == IF n = 0 THEN 0 ELSE f[n] + SumTo(f, n - 1)

CoMoment(rows, a, b) ==
    Len(rows) * SumTo([i \in DOMAIN rows |-> rows[i][a] * rows[i][b]], Len(rows))
    - SumTo([i \in DOMAIN rows |-> rows[i][a]], Len(rows))
      * SumTo([i \in DOMAIN rows |-> rows[i][b]], Len(rows))

RECURSIVE GCD(_, _)
GCD(m, n) == IF n = 0 THEN m ELSE GCD(n, m % n)

Sign(x) == IF x > 0 THEN 1 ELSE IF x < 0 THEN -1 ELSE 0

NaN == [sgn |-> 0, num |-> 0, den |-> 0]
Coefficient(s, n, d) ==
    [sgn |-> s, num |-> n \div GCD(n, d), den |-> d \div GCD(n, d)]

PearsonZeroOnNoVariance(rows, a, b) ==
    LET sab == CoMoment(rows, a, b)
        d   == CoMoment(rows, a, a) * CoMoment(rows, b, b)
    IN IF d = 0 THEN Coefficient(0, 0, 1)
       ELSE Coefficient(Sign(sab), sab * sab, d)

Pearson(rows, a, b) ==
    LET sab == CoMoment(rows, a, b)
        d   == CoMoment(rows, a, a) * CoMoment(rows, b, b)
    IN IF d = 0 THEN NaN
       ELSE Coefficient(Sign(sab), sab * sab, d)

\* select_dtypes(include='number'): the numeric columns of the frame.
SelectNumber(frame) == frame.columns \cap NumericColumns

CorrMatrix(frame) ==
    [a \in SelectNumber(frame) |->
        [b \in SelectNumber(frame) |-> Pearson(frame.rows, a, b)]]

\* The column each plotly view reads besides Attrition.
PxColumn(i) ==
    CASE i = 6  -> "Age"
      [] i = 7  -> "JobSatisfaction"
      [] i = 8  -> "EnvironmentSatisfaction"
      [] i = 9  -> "WorkLifeBalance"
      [] i = 10 -> "JobRole"
      [] i = 11 -> "DistanceFromHome"
      [] i = 12 -> "MonthlyIncome"
      [] i = 13 -> "YearsAtCompany"
      [] i = 14 -> "BusinessTravel"
      [] i = 15 -> "PerformanceRating"
      [] i = 16 -> "YearsSinceLastPromotion"
      [] i = 17 -> "YearsWithCurrManager"
      [] i = 18 -> "EducationField"
      [] i = 19 -> "Education"
      [] i = 20 -> "OverTime"

\* The columns view i reads.
RequiredColumns(i) ==
    CASE i \in {1, 2} -> {"Attrition"}
      [] i = 3 -> {}
      [] i = 4 -> {"Gender", "Attrition"}
      [] i = 5 -> {"MaritalStatus", "Attrition"}
      [] OTHER -> {PxColumn(i), "Attrition"}

\* What px.histogram and px.box are handed: the two columns, row by row.
PxData(rows, i) ==
    [k \in 1..Len(rows) |-> <<rows[k][PxColumn(i)], rows[k]["Attrition"]>>]

\* View i ended normally: the script moves to the statement after it.
Computed(i, outcome) ==
    /\ status' = [status EXCEPT ![i] = outcome]
    /\ log' = Append(log, i)
    /\ nextView' = i + 1
    /\ pc' = IF i = NumViews THEN "done" ELSE "render"
    /\ err' = err

\* View i raised: the run stops.
Raised(i, e) ==
    /\ pc' = "error"
    /\ err' = e
    /\ UNCHANGED <<status, log, nextView>>

Frame == <<file, cache, reads, runs, interactions, df, widgets, sidebar,
           filtered_df>>

\* 1. Overall Attrition Count, lines 41-43
View1 ==
    /\ pc = "render" /\ nextView = 1
    /\ IF RequiredColumns(1) \subseteq filtered_df.columns
         THEN /\ counts' = ValueCounts(filtered_df.rows, "Attrition")
              /\ Computed(1, "ok")
         ELSE /\ Raised(1, "KeyError")
              /\ UNCHANGED counts
    /\ UNCHANGED <<Frame, pie_df, corr, grouped, px>>

\* 2. Attrition Rate Pie Chart, lines 45-49
View2 ==
    /\ pc = "render" /\ nextView = 2
    /\ IF RequiredColumns(2) \subseteq filtered_df.columns
         THEN /\ pie_df' = ResetIndex(ValueCounts(filtered_df.rows, "Attrition"))
              /\ Computed(2, "ok")
         ELSE /\ Raised(2, "KeyError")
              /\ UNCHANGED pie_df
    /\ UNCHANGED <<Frame, counts, corr, grouped, px>>

\* 3. Correlation Heatmap, lines 51-56
View3 ==
    /\ pc = "render" /\ nextView = 3
    /\ corr' = CorrMatrix(filtered_df)
    /\ Computed(3, "ok")
    /\ UNCHANGED <<Frame, counts, pie_df, grouped, px>>

\* 4. Attrition by Gender, 5. Attrition by Marital Status, lines 60-66
ViewGrouped(i) ==
    /\ pc = "render" /\ nextView = i
    /\ IF RequiredColumns(i) \subseteq filtered_df.columns
         THEN /\ grouped' =
                   [grouped EXCEPT ![i] =
                       GroupedValueCounts(filtered_df.rows,
                           IF i = 4 THEN "Gender" ELSE "MaritalStatus",
                           "Attrition")]
              /\ Computed(i, "ok")
         ELSE /\ Raised(i, "KeyError")
              /\ UNCHANGED grouped
    /\ UNCHANGED <<Frame, counts, pie_df, corr, px>>

\* 6. to 19., lines 68-133: px.histogram / px.box on two columns
ViewPx(i) ==
    /\ pc = "render" /\ nextView = i
    /\ IF RequiredColumns(i) \subseteq filtered_df.columns
         THEN /\ px' = [px EXCEPT ![i] = PxData(filtered_df.rows, i)]
              /\ Computed(i, "ok")
         ELSE /\ Raised(i, "ValueError")
              /\ UNCHANGED px
    /\ UNCHANGED <<Frame, counts, pie_df, corr, grouped>>

\* 20. Overtime vs Attrition, lines 135-140: the one guarded view
View20 ==
    /\ pc = "render" /\ nextView = 20
    /\ IF "OverTime" \in filtered_df.columns
         THEN IF RequiredColumns(20) \subseteq filtered_df.columns
                THEN /\ px' = [px EXCEPT ![20] = PxData(filtered_df.rows, 20)]
                     /\ Computed(20, "ok")
                ELSE /\ Raised(20, "ValueError")
                     /\ UNCHANGED px
         ELSE /\ Computed(20, "warning")
              /\ UNCHANGED px
    /\ UNCHANGED <<Frame, counts, pie_df, corr, grouped>>

\* ------------------------------------------------------ the user's moves
\* A widget change starts the next run of the script from its first line.
Rerun ==
    /\ pc \in {"done", "error"}
    /\ runs < MaxRuns
    /\ runs' = runs + 1
    /\ interactions' = interactions + 1
    /\ pc' = "load"
    /\ ScriptStart
    /\ UNCHANGED <<file, cache, reads>>

\* Only a widget the last run drew can be changed.
ChangeGender ==
    /\ gender_options # <<>>
    /\ \E g \in Range(gender_options) \ {selected_gender} : w_gender' = g
    /\ Rerun
    /\ UNCHANGED <<w_department, w_age>>

ChangeDepartment ==
    /\ department_options # <<>>
    /\ \E d \in Range(department_options) \ {selected_department} :
          w_department' = d
    /\ Rerun
    /\ UNCHANGED <<w_gender, w_age>>

ChangeAge ==
    /\ selected_age # <<>>
    /\ \E lo, hi \in {p \in AgePoints : age_bounds[1] <= p /\ p <= age_bounds[2]} :
          /\ lo <= hi
          /\ <<lo, hi>> # selected_age
          /\ w_age' = <<lo, hi>>
    /\ Rerun
    /\ UNCHANGED <<w_gender, w_department>>

Next ==
    \/ LoadData
    \/ Sidebar
    \/ ApplyFilter
    \/ View1
    \/ View2
    \/ View3
    \/ \E i \in 4..5 : ViewGrouped(i)
    \/ \E i \in 6..19 : ViewPx(i)
    \/ View20
    \/ ChangeGender
    \/ ChangeDepartment
    \/ ChangeAge

Spec == Init /\ [][Next]_vars

\* ================================================================ claims
\* The filter of this run has been applied.
Filtered == Len(log) > 0

\* Record r meets the selection of this run.
Satisfies(r) ==
    /\ selected_gender = ALL \/ r["Gender"] = selected_gender
    /\ selected_department = ALL \/ r["Department"] = selected_department
    /\ selected_age[1] <= r["Age"]
    /\ r["Age"] <= selected_age[2]

Values(rows, col) == {rows[i][col] : i \in DOMAIN rows}

\* C1: once the filter has been applied, a record of the Table is in the
\* filtered view if and only if its Gender equals the selected gender (unless
\* All), its Department equals the selected department (unless All) and its
\* Age lies in the selected range, both ends included; the view holds no
\* record that is not in the Table.
C1_FilterSoundAndComplete ==
    Filtered =>
        /\ \A i \in DOMAIN df.rows :
              (df.rows[i] \in Range(filtered_df.rows)) <=> Satisfies(df.rows[i])
        /\ Range(filtered_df.rows) \subseteq Range(df.rows)

\* Both categorical constraints are active, a record whose Age is the upper
\* end of the range is kept, and records are dropped.
C1_Witness ==
    /\ Filtered
    /\ selected_gender # ALL
    /\ selected_department # ALL
    /\ \E j \in DOMAIN filtered_df.rows :
          filtered_df.rows[j]["Age"] = selected_age[2]
    /\ Len(filtered_df.rows) + 2 <= Len(df.rows)

\* C2: with both selectors on All and the age range equal to [min Age, max
\* Age] of the Table, the filtered view is the Table: same columns, same
\* records, same order.
C2_NoConstraintIsIdentity ==
    ( /\ Filtered
      /\ selected_gender = ALL
      /\ selected_department = ALL
      /\ df.rows # <<>>
      /\ selected_age = <<AgeMin(df.rows), AgeMax(df.rows)>> )
    => filtered_df = df

\* The user has widened the slider to the full range of a Table whose ages
\* do not all lie in the default range.
C2_Witness ==
    /\ Filtered
    /\ selected_gender = ALL
    /\ selected_department = ALL
    /\ Len(df.rows) >= 3
    /\ selected_age = <<AgeMin(df.rows), AgeMax(df.rows)>>
    /\ selected_age # <<DefaultLo, DefaultHi>>
    /\ filtered_df.rows = file.rows

\* C5: the value counts of Attrition over the filtered view have as keys
\* exactly the values that occur in the view, every count is the number of
\* records with that value (so at least 1), and the counts add up to the
\* number of records of the view.
RECURSIVE SumOver(_, _)
SumOver(f, keys) ==
    IF keys = {} THEN 0
    ELSE LET k == CHOOSE x \in keys : TRUE IN f[k] + SumOver(f, keys \ {k})

C5_ValueCountsExact ==
    status[1] = "ok" =>
        /\ DOMAIN counts = Values(filtered_df.rows, "Attrition")
        /\ \A v \in DOMAIN counts :
              /\ counts[v] >= 1
              /\ counts[v] =
                    Cardinality({i \in DOMAIN filtered_df.rows :
                                    filtered_df.rows[i]["Attrition"] = v})
        /\ SumOver(counts, DOMAIN counts) = Len(filtered_df.rows)

\* A view that lacks a value the Table has, and holds another value twice.
C5_Witness ==
    /\ status[1] = "ok"
    /\ Values(df.rows, "Attrition") = {"Yes", "No"}
    /\ DOMAIN counts = {"No"}
    /\ counts["No"] = 2

\* C6: in every run the cached Table and df are the file's table, unchanged,
\* and the filtered view is the subsequence of the file's records that meet
\* the selection of this run alone.
C6_TableKeptViewRecomputed ==
    /\ cache.loaded => cache.value = file
    /\ pc \notin {"load"} => df = file
    /\ Filtered =>
          filtered_df =
             [columns |-> file.columns,
              rows |-> SelectSeq(file.rows, LAMBDA r : Satisfies(r))]

\* A third run that shows the whole Table, after a first run whose default
\* age range dropped a record.
C6_Witness ==
    /\ runs = 3
    /\ pc = "done"
    /\ Len(file.rows) = 3
    /\ filtered_df.rows = file.rows
    /\ \E i \in DOMAIN file.rows :
          file.rows[i]["Age"] < DefaultLo \/ file.rows[i]["Age"] > DefaultHi

\* C8: the file is read by the first call of load_data and never again: no
\* read before that call has returned, exactly one read at any later time.
C8_ReadOnce ==
    /\ (runs = 1 /\ pc = "load") => (reads = 0 /\ ~cache.loaded)
    /\ ~(runs = 1 /\ pc = "load") => (reads = 1 /\ cache.loaded)

\* load_data has returned in a third run.
C8_Witness ==
    /\ runs = 3
    /\ pc = "sidebar"
    /\ df = file
    /\ reads = 1

\* C9: the correlation matrix of the filtered view is symmetric; the
\* diagonal entry of a column with variance is 1; with fewer than two
\* records, or for a constant column, every entry that involves the column
\* is NaN, and NaN is not the coefficient 0.
One == [sgn |-> 1, num |-> 1, den |-> 1]
Zero == [sgn |-> 0, num |-> 0, den |-> 1]

Constant(rows, a) == \A i, j \in DOMAIN rows : rows[i][a] = rows[j][a]

C9_CorrelationMatrixShape ==
    status[3] = "ok" =>
        LET rows == filtered_df.rows
            cols == filtered_df.columns \cap NumericColumns
        IN /\ DOMAIN corr = cols
           /\ \A a, b \in cols : corr[a][b] = corr[b][a]
           /\ \A a \in cols :
                 IF Len(rows) < 2 \/ Constant(rows, a)
                   THEN \A b \in cols : corr[a][b] = NaN /\ corr[b][a] = NaN
                   ELSE corr[a][a] = One
           /\ NaN # Zero
           /\ \A a, b \in cols :
                 corr[a][b] # NaN => corr[a][b].num <= corr[a][b].den

\* A matrix with a coefficient strictly between -1 and 0, a NaN entry for a
\* constant column and the coefficient 1 of two equal columns.
C9_Witness ==
    /\ status[3] = "ok"
    /\ Len(filtered_df.rows) = 3
    /\ corr["Age"]["MonthlyIncome"].sgn = -1
    /\ corr["Age"]["MonthlyIncome"].num < corr["Age"]["MonthlyIncome"].den
    /\ corr["Age"]["Education"] = NaN
    /\ corr["MonthlyIncome"]["YearsAtCompany"] = One

\* A matrix that holds the computed coefficient 0.
C9_ZeroReached ==
    /\ status[3] = "ok"
    /\ corr["Age"]["MonthlyIncome"] = Zero

\* The run has ended, normally or on an exception.
RunEnded == pc \in {"done", "error"}

CatalogOrder == [k \in 1..(NumViews + 1) |-> k - 1]

\* C3: a view one of whose columns is absent from the dataset ends in a
\* warning, every other view is computed, and the run reaches its end.
C3_MissingColumnSkipsOneView ==
    (Filtered /\ RunEnded) =>
        /\ pc = "done"
        /\ \A i \in 1..NumViews :
              status[i] = IF RequiredColumns(i) \subseteq filtered_df.columns
                            THEN "ok" ELSE "warning"

\* C4: when the filtered view has no record, the run reaches its end, no
\* view raises, and every view's table is empty (for the correlation view:
\* every entry NaN).
C4_EmptyViewCompletes ==
    (Filtered /\ RunEnded /\ filtered_df.rows = <<>>) =>
        /\ pc = "done"
        /\ \A i \in 1..NumViews : status[i] \in {"ok", "warning"}
        /\ DOMAIN counts = {}
        /\ pie_df = {}
        /\ \A a, b \in DOMAIN corr : corr[a][b] = NaN
        /\ \A i \in 4..5 : DOMAIN grouped[i] = {}
        /\ \A i \in 6..NumViews : px[i] = <<>>

\* C7: there is one run per interaction (plus the first); within a run the
\* filter comes first and once, then the views in catalog order, each once;
\* a run that has applied its filter and ended has computed all twenty
\* views; what a view shows was computed from the filtered view of this run.
C7_OnePassInCatalogOrder ==
    /\ runs = interactions + 1
    /\ Len(log) <= NumViews + 1
    /\ \A k \in DOMAIN log : log[k] = CatalogOrder[k]
    /\ (Filtered /\ RunEnded) => Len(log) = NumViews + 1
    /\ status[1] = "ok" => counts = ValueCounts(filtered_df.rows, "Attrition")
    /\ status[3] = "ok" => corr = CorrMatrix(filtered_df)
    /\ \A i \in 6..NumViews :
          status[i] = "ok" => px[i] = PxData(filtered_df.rows, i)

\* C10, for a dataset that has every column and at least one record: once
\* the sidebar statements have run, the gender and department selectors
\* offer All and each distinct value of the Table once, the slider's bounds
\* are the least and greatest Age of the Table, and the selected range lies
\* within them.
C10_SelectorsFollowTable ==
    (file.columns = AllColumns /\ file.rows # <<>> /\ pc \notin {"load", "sidebar"}) =>
        /\ Range(gender_options) = {ALL} \cup Values(file.rows, "Gender")
        /\ Len(gender_options) = 1 + Cardinality(Values(file.rows, "Gender"))
        /\ Range(department_options) = {ALL} \cup Values(file.rows, "Department")
        /\ Len(department_options) =
              1 + Cardinality(Values(file.rows, "Department"))
        /\ age_bounds = <<AgeMin(file.rows), AgeMax(file.rows)>>
        /\ selected_age # <<>>
        /\ age_bounds[1] <= selected_age[1]
        /\ selected_age[1] <= selected_age[2]
        /\ selected_age[2] <= age_bounds[2]

====
